---- MODULE Spec2Model ----
(***************************************************************************)
(* utpools: a unix-socket relay in front of a pool of backend connections. *)
(* The model follows src/src/utpools.go: main (acceptor goroutine, signal  *)
(* loop, drain wait), handleConn, chanFromConn (the read pumps) and Pipe   *)
(* (the dispatch loop).  The pool (package pipeserver) is outside the      *)
(* source tree and is modelled from its contract.                          *)
(***************************************************************************)
EXTENDS Integers, Sequences, FiniteSets, TLC

\* ---------------------------------------------------------------- bounds
NSess == 2      \* client connections that may arrive
MaxCap == 1     \* pool capacity (the -max option)
MaxReads == 2   \* successful reads (chunks) over the whole run
MaxLiveReads == 1   \* the same, in the runs checked for progress
MaxLostSigs == 1    \* signals arriving after the first one

Sess == 1..NSess
Conns == 1..MaxCap
Dirs == {"src", "dst"}      \* Pipe's two connections: client and backend
NoConn == 0

VARIABLES
    mainPc,      \* main: "waitSig" (range sigs), "select", "exited"
    exitCode,    \* -1 while the process runs, else the os.Exit code
    exitVia,     \* select case that ended the wait: "none", "timer", "drain"
    sockFile,    \* the unix socket file exists
    listenerOpen,\* listener.Close() has not run
    poolReleased,\* pools.Release() has run
    lnDeadline,  \* listener.SetDeadline(time.Now()) has been called
    timerFired,  \* tt.C holds a value
    waiterPc,    \* drain goroutine: "none", "wait", "send", "done"
    sigsLost,    \* signals that found main not receiving from sigs
    wg,          \* connWaitGroup counter
    accPc,       \* acceptor goroutine: "accept", "stopped"
    lastAccept,  \* outcome of the latest listener.Accept()
    sPc,         \* session goroutine: "idle" (not yet accepted), "add",
                 \* "get", "pipe", "ret", "ended"
    target,      \* backend connection returned by pool.Get()
    closes,      \* number of conn.Close() calls on the client connection
    graceSet,    \* Pipe called dst.SetDeadline
    pPc,         \* pump goroutine per session and direction: "none",
                 \* "read", "pub", "sendNil", "close", "put", "end"
    readCnt,     \* chunks read per session and direction
    timedOut,    \* a publish attempt of this pump hit time.After
    written,     \* chunks written per session and source direction
    cState,      \* backend connection: "absent", "idle", "held"
    cDeadline,   \* backend connection deadline: "none", "set", "expired"
    reads        \* chunks read so far, all pumps

mainVars == <<mainPc, exitCode, exitVia, sockFile, listenerOpen, poolReleased,
              lnDeadline, timerFired, waiterPc, sigsLost>>
accVars == <<accPc, lastAccept>>
sessVars == <<sPc, target, closes, graceSet>>
relayVars == <<pPc, readCnt, timedOut, written, reads>>
poolVars == <<cState, cDeadline>>
vars == <<mainVars, wg, accVars, sessVars, relayVars, poolVars>>

Running == mainPc # "exited"

\* ------------------------------------------------------------------ pool
\* Connections the pool can hand out: an idle one, or a new one made by the
\* factory while fewer than MaxCap are live.
Live == {c \in Conns : cState[c] # "absent"}

Available == {c \in Conns : cState[c] = "idle"} \cup
             (IF Cardinality(Live) < MaxCap
                THEN {c \in Conns : cState[c] = "absent"} ELSE {})

\* pool.Put: the connection is kept for reuse (keep) or destroyed.
PoolPut(c, keep) ==
    /\ cState' = [cState EXCEPT ![c] = IF keep THEN "idle" ELSE "absent"]
    /\ cDeadline' = [cDeadline EXCEPT ![c] = IF keep THEN @ ELSE "none"]

\* ------------------------------------------------------------------ Init
Init ==
    /\ mainPc = "waitSig"
    /\ exitCode = -1
    /\ exitVia = "none"
    /\ sockFile = TRUE
    /\ listenerOpen = TRUE
    /\ poolReleased = FALSE
    /\ lnDeadline = FALSE
    /\ timerFired = FALSE
    /\ waiterPc = "none"
    /\ sigsLost = 0
    /\ wg = 0
    /\ accPc = "accept"
    /\ lastAccept = "none"
    /\ sPc = [s \in Sess |-> "idle"]
    /\ target = [s \in Sess |-> NoConn]
    /\ closes = [s \in Sess |-> 0]
    /\ graceSet = [s \in Sess |-> FALSE]
    /\ pPc = [s \in Sess |-> [d \in Dirs |-> "none"]]
    /\ readCnt = [s \in Sess |-> [d \in Dirs |-> 0]]
    /\ timedOut = [s \in Sess |-> [d \in Dirs |-> FALSE]]
    /\ written = [s \in Sess |-> [d \in Dirs |-> <<>>]]
    /\ cState = [c \in Conns |-> "absent"]
    /\ cDeadline = [c \in Conns |-> "none"]
    /\ reads = 0

\* -------------------------------------------------------------- acceptor
\* listener.Accept() succeeds and the session goroutine is started; the
\* goroutine has not yet run connWaitGroup.Add(1).
AcceptOk(s) ==
    /\ Running /\ accPc = "accept" /\ ~lnDeadline
    /\ sPc[s] = "idle"
    /\ sPc' = [sPc EXCEPT ![s] = "add"]
    /\ lastAccept' = "ok"
    /\ UNCHANGED <<mainVars, wg, accPc, target, closes, graceSet, relayVars,
                   poolVars>>

\* Accept fails with an error that is not a timeout: continue.
AcceptErr ==
    /\ Running /\ accPc = "accept" /\ ~lnDeadline
    /\ lastAccept' = "err"
    /\ UNCHANGED <<mainVars, wg, accPc, sessVars, relayVars, poolVars>>

\* A variant of AcceptTimeout: the timeout is not told apart from the
\* other errors, the loop goes on.
AcceptTimeoutContinues ==
    /\ Running /\ accPc = "accept" /\ lnDeadline
    /\ lastAccept' = "timeout"
    /\ UNCHANGED <<mainVars, wg, accPc, sessVars, relayVars, poolVars>>

\* Accept fails with a timeout (the listener deadline has passed): break.
AcceptTimeout ==
    /\ Running /\ accPc = "accept" /\ lnDeadline
    /\ accPc' = "stopped"
    /\ lastAccept' = "timeout"
    /\ UNCHANGED <<mainVars, wg, sessVars, relayVars, poolVars>>

\* --------------------------------------------------------------- session
SessAdd(s) ==
    /\ Running /\ sPc[s] = "add"
    /\ wg' = wg + 1
    /\ sPc' = [sPc EXCEPT ![s] = "get"]
    /\ UNCHANGED <<mainVars, accVars, target, closes, graceSet, relayVars,
                   poolVars>>

\* handleConn: pool.Get() succeeds, Pipe starts both pumps (chanFromConn).
SessGetOk(s, c) ==
    /\ Running /\ sPc[s] = "get"
    /\ c \in Available
    /\ cState' = [cState EXCEPT ![c] = "held"]
    /\ target' = [target EXCEPT ![s] = c]
    /\ pPc' = [pPc EXCEPT ![s] = [d \in Dirs |-> "read"]]
    /\ sPc' = [sPc EXCEPT ![s] = "pipe"]
    /\ UNCHANGED <<mainVars, wg, accVars, closes, graceSet, readCnt, timedOut,
                   written, reads, cDeadline>>

\* A variant of SessGetFail: the error branch closes the connection itself
\* and the deferred Close then runs as well.
SessGetFailCloses(s) ==
    /\ Running /\ sPc[s] = "get"
    /\ closes' = [closes EXCEPT ![s] = @ + 1]
    /\ sPc' = [sPc EXCEPT ![s] = "ret"]
    /\ UNCHANGED <<mainVars, wg, accVars, target, graceSet, relayVars, poolVars>>

\* A variant of SessGetFail: the error branch does not return, and Pipe is
\* started without a backend connection.
SessGetFailNoReturn(s) ==
    /\ Running /\ sPc[s] = "get"
    /\ pPc' = [pPc EXCEPT ![s] = [d \in Dirs |-> "read"]]
    /\ sPc' = [sPc EXCEPT ![s] = "pipe"]
    /\ UNCHANGED <<mainVars, wg, accVars, target, closes, graceSet, readCnt,
                   timedOut, written, reads, poolVars>>

\* A variant of SessGetFail: the error branch calls connWaitGroup.Done()
\* itself before it returns.
SessGetFailDone(s) ==
    /\ Running /\ sPc[s] = "get"
    /\ sPc' = [sPc EXCEPT ![s] = "ret"]
    /\ wg' = wg - 1
    /\ UNCHANGED <<mainVars, accVars, target, closes, graceSet, relayVars,
                   poolVars>>

\* handleConn: pool.Get() fails, return; only the deferred Close is left.
SessGetFail(s) ==
    /\ Running /\ sPc[s] = "get"
    /\ sPc' = [sPc EXCEPT ![s] = "ret"]
    /\ UNCHANGED <<mainVars, wg, accVars, target, closes, graceSet, relayVars,
                   poolVars>>

\* handleConn returns: the deferred conn.Close() runs, then the goroutine
\* calls connWaitGroup.Done().
SessReturn(s) ==
    /\ Running /\ sPc[s] = "ret"
    /\ closes' = [closes EXCEPT ![s] = @ + 1]
    /\ wg' = wg - 1
    /\ sPc' = [sPc EXCEPT ![s] = "ended"]
    /\ UNCHANGED <<mainVars, accVars, target, graceSet, relayVars, poolVars>>

\* ----------------------------------------------------------------- pumps
\* The connection a pump reads: the client connection has no deadline.
ReadDeadline(s, d) == IF d = "dst" THEN cDeadline[target[s]] ELSE "none"

\* conn.Read returns n > 0: the pump copies the chunk and offers it.
PumpReadChunk(s, d) ==
    /\ Running /\ pPc[s][d] = "read"
    /\ ReadDeadline(s, d) # "expired"
    /\ d = "src" => closes[s] = 0
    /\ reads < MaxReads
    /\ reads' = reads + 1
    /\ readCnt' = [readCnt EXCEPT ![s][d] = @ + 1]
    /\ pPc' = [pPc EXCEPT ![s][d] = "pub"]
    /\ UNCHANGED <<mainVars, wg, accVars, sessVars, timedOut, written,
                   poolVars>>

\* conn.Read fails, not with a timeout: the pump goes on to send nil.
PumpReadErr(s, d) ==
    /\ Running /\ pPc[s][d] = "read"
    /\ ReadDeadline(s, d) # "expired"
    /\ pPc' = [pPc EXCEPT ![s][d] = "sendNil"]
    /\ UNCHANGED <<mainVars, wg, accVars, sessVars, readCnt, timedOut, written, reads, poolVars>>

\* A variant of PumpReadTimeout: the error is not tested for a timeout, the
\* sentinel is sent for every failed Read.
PumpReadTimeoutSentinel(s, d) ==
    /\ Running /\ pPc[s][d] = "read"
    /\ ReadDeadline(s, d) = "expired"
    /\ pPc' = [pPc EXCEPT ![s][d] = "sendNil"]
    /\ UNCHANGED <<mainVars, wg, accVars, sessVars, readCnt, timedOut, written, reads, poolVars>>

\* conn.Read fails with a timeout: break without sending.
PumpReadTimeout(s, d) ==
    /\ Running /\ pPc[s][d] = "read"
    /\ ReadDeadline(s, d) = "expired"
    /\ pPc' = [pPc EXCEPT ![s][d] = "close"]
    /\ UNCHANGED <<mainVars, wg, accVars, sessVars, readCnt, timedOut, written, reads, poolVars>>

\* A variant of PumpPubTimeout: the break in the time.After case leaves the
\* read loop instead of the select.
PumpPubTimeoutStops(s, d) ==
    /\ Running /\ pPc[s][d] = "pub"
    /\ timedOut' = [timedOut EXCEPT ![s][d] = TRUE]
    /\ pPc' = [pPc EXCEPT ![s][d] = "close"]
    /\ UNCHANGED <<mainVars, wg, accVars, sessVars, readCnt, written,
                   reads, poolVars>>

\* select: time.After(10 s) wins, the chunk is given up, next Read.
PumpPubTimeout(s, d) ==
    /\ Running /\ pPc[s][d] = "pub"
    /\ timedOut' = [timedOut EXCEPT ![s][d] = TRUE]
    /\ pPc' = [pPc EXCEPT ![s][d] = "read"]
    /\ UNCHANGED <<mainVars, wg, accVars, sessVars, readCnt, written,
                   reads, poolVars>>

\* A variant of PumpClose: pool is not tested for nil, both pumps go on to
\* pool.Put.
PumpCloseAlwaysPut(s, d) ==
    /\ Running /\ pPc[s][d] = "close"
    /\ pPc' = [pPc EXCEPT ![s][d] = "put"]
    /\ UNCHANGED <<mainVars, wg, accVars, sessVars, readCnt, timedOut, written, reads, poolVars>>

\* close(c); the pump of the client connection (pool == nil) ends here.
PumpClose(s, d) ==
    /\ Running /\ pPc[s][d] = "close"
    /\ pPc' = [pPc EXCEPT ![s][d] = IF d = "dst" THEN "put" ELSE "end"]
    /\ UNCHANGED <<mainVars, wg, accVars, sessVars, readCnt, timedOut, written, reads, poolVars>>

\* A variant of PumpPut: the deadline is cleared (SetDeadline(time.Time{}))
\* before the connection is handed to pool.Put.
PumpPutClearsDeadline(s, keep) ==
    /\ Running /\ pPc[s]["dst"] = "put"
    /\ cState' = [cState EXCEPT ![target[s]] =
                     IF keep THEN "idle" ELSE "absent"]
    /\ cDeadline' = [cDeadline EXCEPT ![target[s]] = "none"]
    /\ pPc' = [pPc EXCEPT ![s]["dst"] = "end"]
    /\ UNCHANGED <<mainVars, wg, accVars, sessVars, readCnt, timedOut, written, reads>>

\* pool.Put(conn) by the pump of the backend connection.
PumpPut(s, keep) ==
    /\ Running /\ pPc[s]["dst"] = "put"
    /\ PoolPut(target[s], keep)
    /\ pPc' = [pPc EXCEPT ![s]["dst"] = "end"]
    /\ UNCHANGED <<mainVars, wg, accVars, sessVars, readCnt, timedOut, written, reads>>

\* ------------------------------------------------------- dispatch (Pipe)
ChanClosed(s, d) == pPc[s][d] \in {"put", "end"}

\* A variant of PipeForward: the chunk is written twice.
PipeForwardTwice(s, d) ==
    /\ Running /\ sPc[s] = "pipe"
    /\ pPc[s][d] = "pub"
    /\ written' = [written EXCEPT ![s][d] =
                      Append(Append(@, readCnt[s][d]), readCnt[s][d])]
    /\ pPc' = [pPc EXCEPT ![s][d] = "read"]
    /\ UNCHANGED <<mainVars, wg, accVars, sessVars, readCnt, timedOut, reads,
                   poolVars>>

\* case sd := <-sc: dst.Write(sd) / case dd := <-dc: src.Write(dd).
\* written[s][d] lists the chunks of direction d handed to Write.
PipeForward(s, d) ==
    /\ Running /\ sPc[s] = "pipe"
    /\ pPc[s][d] = "pub"
    /\ written' = [written EXCEPT ![s][d] = Append(@, readCnt[s][d])]
    /\ pPc' = [pPc EXCEPT ![s][d] = "read"]
    /\ UNCHANGED <<mainVars, wg, accVars, sessVars, readCnt, timedOut, reads,
                   poolVars>>

\* dst.SetDeadline(now + 10 s): no effect on a connection already destroyed.
SetGrace(s) ==
    /\ graceSet' = [graceSet EXCEPT ![s] = TRUE]
    /\ cDeadline' = [cDeadline EXCEPT ![target[s]] =
                        IF cState[target[s]] = "absent" THEN @ ELSE "set"]

\* A variant of PipeRecvNil: Pipe closes the client connection when it
\* returns.
PipeRecvNilCloses(s, d) ==
    /\ Running /\ sPc[s] = "pipe"
    /\ \/ /\ pPc[s][d] = "sendNil"
          /\ pPc' = [pPc EXCEPT ![s][d] = "close"]
       \/ /\ ChanClosed(s, d)
          /\ pPc' = pPc
    /\ IF d = "src" THEN SetGrace(s)
                    ELSE UNCHANGED <<graceSet, cDeadline>>
    /\ closes' = [closes EXCEPT ![s] = @ + 1]
    /\ sPc' = [sPc EXCEPT ![s] = "ret"]
    /\ UNCHANGED <<mainVars, wg, accVars, target, readCnt, timedOut,
                   written, reads, cState>>

\* A variant of PipeRecvNil: a nil from sc is not tested for, the loop goes on.
PipeRecvNilSrcIgnored(s, d) ==
    /\ Running /\ sPc[s] = "pipe"
    /\ pPc[s][d] = "sendNil"
    /\ pPc' = [pPc EXCEPT ![s][d] = "close"]
    /\ sPc' = [sPc EXCEPT ![s] = IF d = "dst" THEN "ret" ELSE "pipe"]
    /\ UNCHANGED <<mainVars, wg, accVars, target, closes, graceSet, readCnt,
                   timedOut, written, reads, poolVars>>

\* The receive yields nil: the pump's sentinel, or the channel is closed.
\* From sc: set the deadline on dst and return; from dc: return.
PipeRecvNil(s, d) ==
    /\ Running /\ sPc[s] = "pipe"
    /\ \/ /\ pPc[s][d] = "sendNil"
          /\ pPc' = [pPc EXCEPT ![s][d] = "close"]
       \/ /\ ChanClosed(s, d)
          /\ pPc' = pPc
    /\ IF d = "src" THEN SetGrace(s)
                    ELSE UNCHANGED <<graceSet, cDeadline>>
    /\ sPc' = [sPc EXCEPT ![s] = "ret"]
    /\ UNCHANGED <<mainVars, wg, accVars, target, closes, readCnt, timedOut,
                   written, reads, cState>>

\* Time passes: a deadline that was set is reached.
DeadlineExpire(c) ==
    /\ Running /\ cDeadline[c] = "set"
    /\ cDeadline' = [cDeadline EXCEPT ![c] = "expired"]
    /\ UNCHANGED <<mainVars, wg, accVars, sessVars, relayVars, cState>>

\* ----------------------------------------------------- main, signal loop
\* A variant of Signal: the listener deadline is not set.
SignalNoDeadline ==
    /\ mainPc = "waitSig"
    /\ waiterPc' = "wait"
    /\ mainPc' = "select"
    /\ UNCHANGED <<exitCode, exitVia, sockFile, listenerOpen, poolReleased,
                   lnDeadline, timerFired, sigsLost, wg, accVars, sessVars,
                   relayVars, poolVars>>

\* A signal is received from sigs: listener.SetDeadline(time.Now()), the
\* timer is created and the goroutine calling connWaitGroup.Wait() started.
Signal ==
    /\ mainPc = "waitSig"
    /\ lnDeadline' = TRUE
    /\ waiterPc' = "wait"
    /\ mainPc' = "select"
    /\ UNCHANGED <<exitCode, exitVia, sockFile, listenerOpen, poolReleased,
                   timerFired, sigsLost, wg, accVars, sessVars, relayVars,
                   poolVars>>

\* A variant of SignalDropped: the signal is taken and the loop body runs
\* again, with a new timer and a new goroutine calling Wait().
SignalAgain ==
    /\ mainPc = "select" /\ sigsLost < MaxLostSigs
    /\ sigsLost' = sigsLost + 1
    /\ timerFired' = FALSE
    /\ waiterPc' = "wait"
    /\ UNCHANGED <<mainPc, exitCode, exitVia, sockFile, listenerOpen,
                   poolReleased, lnDeadline, wg, accVars, sessVars, relayVars,
                   poolVars>>

\* A further signal arrives while main is in the select of the loop body:
\* sigs is unbuffered and nobody receives from it, so signal.Notify's
\* non-blocking send drops it; the loop body ends in break and never
\* receives again.
SignalDropped ==
    /\ mainPc = "select" /\ sigsLost < MaxLostSigs
    /\ sigsLost' = sigsLost + 1
    /\ UNCHANGED <<mainPc, exitCode, exitVia, sockFile, listenerOpen,
                   poolReleased, lnDeadline, timerFired, waiterPc, wg,
                   accVars, sessVars, relayVars, poolVars>>

\* The shutdown timer expires: tt.C becomes ready.
TimerFire ==
    /\ mainPc = "select" /\ ~timerFired
    /\ timerFired' = TRUE
    /\ UNCHANGED <<mainPc, exitCode, exitVia, sockFile, listenerOpen,
                   poolReleased, lnDeadline, waiterPc, sigsLost, wg, accVars,
                   sessVars, relayVars, poolVars>>

\* connWaitGroup.Wait() returns: the counter is zero.
WaiterWait ==
    /\ Running /\ waiterPc = "wait"
    /\ wg = 0
    /\ waiterPc' = "send"
    /\ UNCHANGED <<mainPc, exitCode, exitVia, sockFile, listenerOpen,
                   poolReleased, lnDeadline, timerFired, sigsLost, wg, accVars,
                   sessVars, relayVars, poolVars>>

\* os.Remove(socket file); break; os.Exit(0).  os.Exit does not run the
\* deferred listener.Close() / pools.Release().
RemoveAndExit(via) ==
    /\ exitVia' = via
    /\ sockFile' = FALSE
    /\ exitCode' = 0
    /\ mainPc' = "exited"
    /\ UNCHANGED <<listenerOpen, poolReleased, sigsLost>>

\* A variant of MainSelectTimer: the select has a default case.
MainSelectDefault ==
    /\ mainPc = "select"
    /\ RemoveAndExit("timer")
    /\ UNCHANGED <<lnDeadline, timerFired, waiterPc, wg, accVars, sessVars,
                   relayVars, poolVars>>

\* A variant of MainSelectTimer: the timer case closes the client connection
\* of every session still registered before it exits.
MainSelectTimerClosesSessions ==
    /\ mainPc = "select" /\ timerFired
    /\ RemoveAndExit("timer")
    /\ closes' = [s \in Sess |->
                    IF sPc[s] \in {"get", "pipe", "ret"}
                    THEN closes[s] + 1 ELSE closes[s]]
    /\ UNCHANGED <<lnDeadline, timerFired, waiterPc, wg, accVars, sPc,
                   target, graceSet, relayVars, poolVars>>

\* select { case <-tt.C: }
MainSelectTimer ==
    /\ mainPc = "select" /\ timerFired
    /\ RemoveAndExit("timer")
    /\ UNCHANGED <<lnDeadline, timerFired, waiterPc, wg, accVars, sessVars,
                   relayVars, poolVars>>

\* select { case <-wait: } : rendezvous with the drain goroutine's send.
MainSelectWait ==
    /\ mainPc = "select" /\ waiterPc = "send"
    /\ waiterPc' = "done"
    /\ RemoveAndExit("drain")
    /\ UNCHANGED <<lnDeadline, timerFired, wg, accVars, sessVars, relayVars,
                   poolVars>>

\* ------------------------------------------------------------------ Next
Next ==
    \/ \E s \in Sess : AcceptOk(s)
    \/ AcceptErr
    \/ AcceptTimeout
    \/ \E s \in Sess : SessAdd(s)
    \/ \E s \in Sess, c \in Conns : SessGetOk(s, c)
    \/ \E s \in Sess : SessGetFail(s)
    \/ \E s \in Sess : SessReturn(s)
    \/ \E s \in Sess, d \in Dirs : PumpReadChunk(s, d)
    \/ \E s \in Sess, d \in Dirs : PumpReadErr(s, d)
    \/ \E s \in Sess, d \in Dirs : PumpReadTimeout(s, d)
    \/ \E s \in Sess, d \in Dirs : PumpPubTimeout(s, d)
    \/ \E s \in Sess, d \in Dirs : PumpClose(s, d)
    \/ \E s \in Sess, keep \in BOOLEAN : PumpPut(s, keep)
    \/ \E s \in Sess, d \in Dirs : PipeForward(s, d)
    \/ \E s \in Sess, d \in Dirs : PipeRecvNil(s, d)
    \/ \E c \in Conns : DeadlineExpire(c)
    \/ Signal
    \/ SignalDropped
    \/ TimerFire
    \/ WaiterWait
    \/ MainSelectTimer
    \/ MainSelectWait

Spec == Init /\ [][Next]_vars

\* ---------------------------------------------------------------- fairness
\* The next-state relation used for progress properties: Next without the
\* signals that arrive after the first one (which change nothing but
\* sigsLost) and with at most MaxLiveReads chunks read.
LiveNext ==
    \/ \E s \in Sess : AcceptOk(s)
    \/ AcceptErr
    \/ AcceptTimeout
    \/ \E s \in Sess : SessAdd(s)
    \/ \E s \in Sess, c \in Conns : SessGetOk(s, c)
    \/ \E s \in Sess : SessGetFail(s)
    \/ \E s \in Sess : SessReturn(s)
    \/ \E s \in Sess, d \in Dirs : PumpReadChunk(s, d) /\ reads < MaxLiveReads
    \/ \E s \in Sess, d \in Dirs : PumpReadErr(s, d)
    \/ \E s \in Sess, d \in Dirs : PumpReadTimeout(s, d)
    \/ \E s \in Sess, d \in Dirs : PumpPubTimeout(s, d)
    \/ \E s \in Sess, d \in Dirs : PumpClose(s, d)
    \/ \E s \in Sess, keep \in BOOLEAN : PumpPut(s, keep)
    \/ \E s \in Sess, d \in Dirs : PipeForward(s, d)
    \/ \E s \in Sess, d \in Dirs : PipeRecvNil(s, d)
    \/ \E c \in Conns : DeadlineExpire(c)
    \/ Signal
    \/ TimerFire
    \/ WaiterWait
    \/ MainSelectTimer
    \/ MainSelectWait

\* Steps that need nothing from outside the process but the passing of
\* time: goroutines that can run, a select with a ready case, a deadline or
\* the publish timer running out.  Nothing forces a signal, the shutdown
\* timer, a new client, or a Read to return data or a non-timeout error.
Progress ==
    \/ AcceptTimeout
    \/ \E s \in Sess : SessAdd(s)
    \/ \E s \in Sess, c \in Conns : SessGetOk(s, c)
    \/ \E s \in Sess : SessGetFail(s)
    \/ \E s \in Sess : SessReturn(s)
    \/ \E s \in Sess, d \in Dirs : PumpReadTimeout(s, d)
    \/ \E s \in Sess, d \in Dirs : PumpPubTimeout(s, d)
    \/ \E s \in Sess, d \in Dirs : PumpClose(s, d)
    \/ \E s \in Sess, keep \in BOOLEAN : PumpPut(s, keep)
    \/ \E s \in Sess, d \in Dirs : PipeForward(s, d)
    \/ \E s \in Sess, d \in Dirs : PipeRecvNil(s, d)
    \/ \E c \in Conns : DeadlineExpire(c)
    \/ WaiterWait
    \/ MainSelectTimer
    \/ MainSelectWait

\* No behaviour takes infinitely many steps (every step moves a position
\* forward or uses up a bounded resource), so every behaviour ends in a
\* state it stays in; weak fairness of Progress says that no step of
\* Progress is enabled there, which is what weak or strong fairness of each
\* step separately would say.
Fairness == WF_vars(Progress)

LiveSpec == Init /\ [][LiveNext]_vars /\ Fairness

\* ------------------------------------------------------------------ claims
SessionQuiet(s) == sPc[s] \in {"idle", "ended"}
DrainObserved == waiterPc \in {"send", "done"}

\* C1: when connWaitGroup.Wait() has returned (the drain wait observed a
\* zero count), no accepted Session is still unregistered or still running.
C1_RegisteredBeforeDrain ==
    DrainObserved => \A s \in Sess : SessionQuiet(s)

\* C2: the process has exited with code 0 only after a signal was handled
\* and after the drain wait observed zero or the shutdown timer fired; the
\* select case taken is one whose condition had occurred.
C2_ExitAfterSignalAndDrainOrTimer ==
    exitCode = 0 =>
        /\ lnDeadline
        /\ DrainObserved \/ timerFired
        /\ exitVia = "drain" => waiterPc = "done"
        /\ exitVia = "timer" => timerFired

C2_Witness == exitCode = 0 /\ exitVia = "timer" /\ wg > 0 /\ ~DrainObserved

\* C3: at exit with code 0 the socket file has been removed and the pool
\* has been released, so no backend connection is live.
C3_CleanupAtExit ==
    exitCode = 0 => ~sockFile /\ poolReleased /\ Live = {}

\* C4: once the backend pump of a Session has called pool.Put, the dispatch
\* loop of that Session writes no further chunk to the backend connection
\* and sets no deadline on it.
C4_NoUseAfterPut ==
    [][\A s \in Sess : pPc[s]["dst"] = "end" =>
          /\ written'[s]["dst"] = written[s]["dst"]
          /\ graceSet'[s] = graceSet[s]]_vars

\* C5: once the Relay of a Session has ended, whichever way, its backend
\* pump eventually calls pool.Put on the connection the Session acquired
\* (read for a process that is not made to exit first).
RelayOver(s) == target[s] # NoConn /\ sPc[s] \in {"ret", "ended"}

C5_EventuallyPut ==
    \A s \in Sess : RelayOver(s) ~> (pPc[s]["dst"] = "end" \/ ~Running)

\* C6: per direction the chunks written are, in order and without
\* repetition, among the chunks read (chunk i is the i-th one read); with no
\* publish timeout they are exactly the chunks read, except the one the
\* pump is still offering.
Increasing(q) == \A i, j \in 1..Len(q) : i < j => q[i] < q[j]

Offered(s, d) == IF pPc[s][d] = "pub" THEN 1 ELSE 0

C6_OrderedForwarding ==
    \A s \in Sess, d \in Dirs :
        /\ Increasing(written[s][d])
        /\ \A i \in 1..Len(written[s][d]) :
              written[s][d][i] \in 1..readCnt[s][d]
        /\ ~timedOut[s][d] =>
              written[s][d] = [i \in 1..(readCnt[s][d] - Offered(s, d)) |-> i]

C6_Witness ==
    \E s \in Sess, d \in Dirs : written[s][d] = <<1, 2>> /\ ~timedOut[s][d]

\* C7: the client connection is closed at most once, exactly once when the
\* Session has ended (after a failed acquire as after a Relay), and never
\* while its dispatch loop runs.
C7_ClientClosedOnce ==
    \A s \in Sess :
        /\ closes[s] <= 1
        /\ sPc[s] = "ended" <=> closes[s] = 1
        /\ sPc[s] = "pipe" => closes[s] = 0

C7_Witness ==
    /\ \E s \in Sess : sPc[s] = "ended" /\ target[s] = NoConn /\ closes[s] = 1
    /\ \E s \in Sess : sPc[s] = "ended" /\ target[s] # NoConn /\ closes[s] = 1

\* C8: a Session whose pool.Get failed starts no pump and no Relay and calls
\* no pool.Put; the failing step and its return change nothing of any other
\* Session or of the pool, and the return closes the client connection and
\* decrements the wait group.
GetFailed(s) == target[s] = NoConn /\ sPc[s] \in {"ret", "ended"}

OthersUntouched(s) ==
    /\ \A t \in Sess \ {s} :
          /\ sPc'[t] = sPc[t] /\ closes'[t] = closes[t]
          /\ graceSet'[t] = graceSet[t]
    /\ UNCHANGED <<target, relayVars, poolVars>>

C8_AcquireFailureContained ==
    /\ [](\A s \in Sess : target[s] = NoConn =>
            /\ sPc[s] # "pipe" /\ ~graceSet[s]
            /\ \A d \in Dirs : pPc[s][d] = "none" /\ written[s][d] = <<>>
            /\ sPc[s] = "ended" => closes[s] = 1)
    /\ [][\A s \in Sess :
            /\ (sPc[s] = "get" /\ sPc'[s] = "ret") =>
                  OthersUntouched(s) /\ closes'[s] = 0 /\ wg' = wg
            /\ (GetFailed(s) /\ sPc[s] = "ret" /\ sPc'[s] = "ended") =>
                  OthersUntouched(s) /\ closes'[s] = 1 /\ wg' = wg - 1]_vars

C8_Witness ==
    \E s, t \in Sess :
        /\ GetFailed(s) /\ sPc[s] = "ended"
        /\ sPc[t] = "pipe" /\ pPc[t]["src"] = "pub"

\* C9 as claimed: once the client pump's Read has failed with a non-timeout
\* error while the Relay runs, the Relay sets the grace deadline and the
\* Session closes the client connection and deregisters (read for a process
\* that is not made to exit first).
ClientGone(s) == sPc[s] = "pipe" /\ pPc[s]["src"] = "sendNil"

BackendSideOver(s) == pPc[s]["dst"] \in {"close", "put", "end"}

QuietDrain == mainPc = "select" /\ \A s \in Sess : SessionQuiet(s)

C10_QuietShutdown ==
    QuietDrain ~> (exitCode = 0 /\ (exitVia = "drain" \/ timerFired))

C10_Witness ==
    /\ exitCode = 0 /\ exitVia = "drain" /\ ~timerFired
    /\ \A s \in Sess : SessionQuiet(s)

\* C11: the shutdown state moves only forward, Running (waiting for a
\* signal) -> Draining (in the select) -> Stopped (exited), Draining being
\* entered once; a further signal during Draining changes nothing: the timer
\* is not re-armed and the drain goroutine is not started again.
Phase == CASE mainPc = "waitSig" -> 0 [] mainPc = "select" -> 1
           [] mainPc = "exited" -> 2

WaiterRank == CASE waiterPc = "none" -> 0 [] waiterPc = "wait" -> 1
                [] waiterPc = "send" -> 2 [] waiterPc = "done" -> 3

C11_ShutdownForwardOnly ==
    [][/\ Phase' \in {Phase, Phase + 1}
       /\ WaiterRank' >= WaiterRank
       /\ timerFired => timerFired'
       /\ lnDeadline => lnDeadline'
       /\ (Phase = 0) = (waiterPc = "none")
       /\ sigsLost' # sigsLost =>
             /\ mainPc = "select"
             /\ UNCHANGED <<mainPc, exitCode, exitVia, sockFile, listenerOpen,
                            poolReleased, lnDeadline, timerFired, waiterPc, wg,
                            accVars, sessVars, relayVars, poolVars>>]_vars

C11_Witness == sigsLost > 0 /\ timerFired /\ exitCode = 0 /\ exitVia = "drain"

\* C12: the acceptor loop ends only on an Accept that failed with a timeout;
\* an Accept that failed otherwise starts no Session and the loop goes on; a
\* successful Accept starts exactly one Session and the loop goes on.  Once
\* the listener deadline has been set no Session is started any more, and
\* the acceptor stops (at the latest when the process exits).
Started(s) == sPc[s] = "idle" /\ sPc'[s] # "idle"

C12_AcceptorLoop ==
    /\ [][/\ accPc' # accPc =>
               accPc' = "stopped" /\ lastAccept' = "timeout" /\ lnDeadline
          /\ accPc = "stopped" => \A s \in Sess : ~Started(s)
          /\ lnDeadline => \A s \in Sess : ~Started(s)
          /\ lastAccept' = "err" /\ lastAccept # "err" =>
               accPc' = "accept" /\ UNCHANGED <<sessVars, wg>>
          /\ (\E s \in Sess : Started(s)) =>
               /\ Cardinality({s \in Sess : Started(s)}) = 1
               /\ lastAccept' = "ok" /\ accPc' = "accept"]_vars
    /\ lnDeadline ~> (accPc = "stopped" \/ ~Running)

C12_Witness ==
    /\ accPc = "stopped" /\ Running
    /\ \E s \in Sess : sPc[s] = "pipe"
    /\ \E s \in Sess : sPc[s] = "idle"

\* C13: a pump whose Read has failed (it is about to send the sentinel, or
\* about to close its channel) eventually closes its channel and ends, also
\* when the dispatch loop has returned (read for a process that is not made
\* to exit first).
C13_PumpEnds ==
    \A s \in Sess, d \in Dirs :
        pPc[s][d] \in {"sendNil", "close"} ~> (pPc[s][d] = "end" \/ ~Running)

\* C14: a publish attempt that runs into its timeout gives the chunk up, and
\* the pump goes back to Read; a chunk that was given up is never written
\* afterwards, and what is written after a timeout is still in read order.
ChunksOf(q) == {q[i] : i \in 1..Len(q)}

GivenUp(s, d) ==
    {k \in 1..readCnt[s][d] :
        /\ k \notin ChunksOf(written[s][d])
        /\ ~(pPc[s][d] = "pub" /\ k = readCnt[s][d])}

C14_AbandonedChunk ==
    [][\A s \in Sess, d \in Dirs :
         /\ (/\ pPc[s][d] = "pub" /\ pPc'[s][d] # "pub"
             /\ written'[s][d] = written[s][d]) =>
               /\ pPc'[s][d] = "read" /\ timedOut'[s][d]
               /\ readCnt'[s][d] = readCnt[s][d]
               /\ readCnt[s][d] \in GivenUp(s, d)'
         /\ \A k \in GivenUp(s, d) : k \notin ChunksOf(written'[s][d])
         /\ timedOut[s][d] => Increasing(written'[s][d])]_vars

C14_Witness ==
    \E s \in Sess, d \in Dirs : timedOut[s][d] /\ written[s][d] = <<2>>

C16_RelayEndClosesNothing ==
    [][\A s \in Sess :
         /\ (sPc[s] = "pipe" /\ sPc'[s] # "pipe") =>
               /\ sPc'[s] = "ret"
               /\ UNCHANGED <<closes, cState, target>>
               /\ \/ UNCHANGED <<graceSet, cDeadline>>
                  \/ /\ graceSet'[s] /\ ~graceSet[s]
                     /\ pPc[s]["src"] = "sendNil" \/ ChanClosed(s, "src")
                     /\ cDeadline' =
                          [cDeadline EXCEPT ![target[s]] =
                              IF cState[target[s]] = "absent"
                              THEN @ ELSE "set"]
         /\ closes'[s] # closes[s] =>
               sPc[s] = "ret" /\ sPc'[s] = "ended"
         /\ (target[s] # NoConn /\ cState[target[s]] = "held"
               /\ cState'[target[s]] # "held") =>
               \E t \in Sess : /\ target[t] = target[s]
                                /\ pPc[t]["dst"] = "put"
                                /\ pPc'[t]["dst"] = "end"]_vars

C16_Witness ==
    \E s \in Sess :
        /\ sPc[s] = "ret" /\ ~graceSet[s] /\ closes[s] = 0
        /\ pPc[s]["dst"] = "close" /\ cState[target[s]] = "held"
        /\ cDeadline[target[s]] = "none"

\* C17: once the shutdown timer has fired after a signal, the process exits
\* (by the timer case or by the drain case), also with a session that never
\* ends; the exit by the timer case changes nothing of any session, pump,
\* backend connection or of the wait group: no connection is closed.
C17_TimerExitAbandonsSessions ==
    /\ [][(exitVia' = "timer" /\ exitVia # "timer") =>
            /\ mainPc = "select" /\ timerFired /\ exitCode' = 0
            /\ UNCHANGED <<sessVars, relayVars, poolVars, wg>>]_vars
    /\ (mainPc = "select" /\ timerFired) ~> ~Running

C17_Witness ==
    /\ exitCode = 0 /\ exitVia = "timer"
    /\ \E s \in Sess : /\ sPc[s] = "pipe" /\ closes[s] = 0
                       /\ pPc[s]["dst"] = "read"
                       /\ cState[target[s]] = "held"
    /\ wg > 0

\* C18: the wait group counter is never negative and equals the number of
\* session goroutines between their Add(1) and their Done(); it goes up by
\* one only at a goroutine's Add, down by one only at its Done, and a
\* goroutine that is done never registers again.
Registered(s) == sPc[s] \in {"get", "pipe", "ret"}

C18_WaitGroupCount ==
    /\ [](wg >= 0 /\ wg = Cardinality({s \in Sess : Registered(s)}))
    /\ [][/\ wg' # wg =>
               \E s \in Sess :
                   /\ \A t \in Sess \ {s} : sPc'[t] = sPc[t]
                   /\ \/ sPc[s] = "add" /\ sPc'[s] = "get" /\ wg' = wg + 1
                      \/ sPc[s] = "ret" /\ sPc'[s] = "ended" /\ wg' = wg - 1
          /\ \A s \in Sess :
                /\ sPc[s] = "ended" => sPc'[s] = "ended"
                /\ Registered(s) => (Registered(s)' \/ sPc'[s] = "ended")
                /\ (Registered(s)' /\ ~Registered(s)) => sPc[s] = "add"]_vars

C18_Witness ==
    /\ wg = 1
    /\ \E s, t \in Sess : /\ sPc[s] = "ended" /\ target[s] = NoConn
                          /\ sPc[t] = "ret" /\ target[t] # NoConn

\* C19: pool.Put is called by the pump of the backend connection only, after
\* its close(c), and once: the pump of the client connection never reaches
\* Put, a pump that has ended stays ended, and a backend connection leaves
\* "held" only in the Put step of a pump that reads it.
C19_PutOnceByBackendPump ==
    /\ [](\A s \in Sess : pPc[s]["src"] # "put")
    /\ [][/\ \A s \in Sess, d \in Dirs :
                 /\ pPc[s][d] = "end" => pPc'[s][d] = "end"
                 /\ (pPc'[s][d] = "put" /\ pPc[s][d] # "put") =>
                        d = "dst" /\ pPc[s][d] = "close"
                 /\ (pPc'[s][d] = "end" /\ pPc[s][d] # "end") =>
                        pPc[s][d] = (IF d = "dst" THEN "put" ELSE "close")
          /\ \A c \in Conns :
                (cState[c] = "held" /\ cState'[c] # "held") =>
                   Cardinality({s \in Sess :
                       /\ target[s] = c /\ pPc[s]["dst"] = "put"
                       /\ pPc'[s]["dst"] = "end"}) = 1]_vars

C19_Witness ==
    \E s \in Sess :
        /\ pPc[s]["dst"] = "end" /\ pPc[s]["src"] = "end"
        /\ cState[target[s]] = "idle"

\* C20: after the client-side end the backend pump gets to close(c), and so
\* to pool.Put, only by a Read that timed out at an expired deadline; no
\* step takes a deadline off a connection that stays alive, neither Put nor
\* Get; and a session holding a connection whose deadline has expired reads
\* nothing from it: its first Read times out.
C20_GraceDeadlineSurvivesPut ==
    [][/\ \A s \in Sess :
             /\ (graceSet[s] /\ pPc'[s]["dst"] = "close"
                   /\ pPc[s]["dst"] # "close") =>
                    /\ pPc[s]["dst"] = "read"
                    /\ cDeadline[target[s]] = "expired"
             /\ (/\ sPc[s] = "pipe" /\ pPc[s]["dst"] = "read"
                 /\ cDeadline[target[s]] = "expired") =>
                    /\ pPc'[s]["dst"] \in {"read", "close"}
                    /\ readCnt'[s]["dst"] = readCnt[s]["dst"]
                    /\ written'[s]["dst"] = written[s]["dst"]
      /\ \A c \in Conns :
            /\ (cDeadline[c] # "none" /\ cState'[c] # "absent") =>
                   cDeadline'[c] # "none"
            /\ (cState'[c] # cState[c] /\ cState'[c] # "absent") =>
                   cDeadline'[c] = cDeadline[c]]_vars

C20_Witness ==
    \E s, t \in Sess :
        /\ s # t /\ target[t] = target[s] /\ graceSet[t] /\ ~graceSet[s]
        /\ sPc[s] = "ret" /\ pPc[s]["dst"] = "end"
        /\ readCnt[s]["dst"] = 0 /\ written[s]["dst"] = <<>>
        /\ cDeadline[target[s]] = "expired"
        /\ cState[target[s]] = "idle"

====
